---- MODULE Spec2Model ----
(***************************************************************************)
(* Fetch engine of the data-view component system: the hook                *)
(* useDataViewInfiniteQuery (src/hooks/use-data-view-infinite-query.ts).   *)
(*                                                                         *)
(* React state is modelled by two records: `state` is the state of the     *)
(* last committed render (what stateRef.current and the hook's return      *)
(* value show), `nextState` is that state with every queued setState       *)
(* applied in order (what the next render will commit).  A render commits  *)
(* nextState, re-assigns the refs and runs the fetch effect.  A request    *)
(* stays in `requests` from the call of the fetcher until the awaited      *)
(* promise settles.  The effect runs in the step of its commit: React      *)
(* flushes the effects of a render before it handles another event or      *)
(* starts another render.  A handler may be called between the settling    *)
(* of a promise and the render that publishes its setState.                *)
(*                                                                         *)
(* URL store: the hook useDataViewUrlState (src/unnamed/part_003) and the  *)
(* filter menu of src/data-view-active-tags.tsx.  `searchParams` is the    *)
(* URL the last render read and `url` the target of a router.replace that  *)
(* no render has shown yet; every handler builds its target from the       *)
(* searchParams of its closure, and Navigate commits the target.  The      *)
(* context facade useDataView is applied by UseDataView.  A URL lays its   *)
(* parameters out by name: the fields of the store's keys are the          *)
(* parameters named getParamKey(key), `other` the ones under another       *)
(* prefix.  The view mode of the store is `viewMode` with its cookie.      *)
(*                                                                         *)
(* Table-backed fetcher: `query` is the sequence of calls supabaseFetcher  *)
(* makes on the query builder for the props `config` and the context       *)
(* `ctx`.                                                                  *)
(*                                                                         *)
(* The parts are explored by specifications of their own (Spec,            *)
(* SpecLoadMore, SpecNoTable for the hook; SpecUrl, SpecFacade,            *)
(* SpecViewMode for the store; SpecFetcher for the fetcher), each holding  *)
(* the variables of the other parts at rest; SpecProvider runs the hook    *)
(* with the props DataViewProvider derives from the URL store.             *)
(***************************************************************************)
EXTENDS Integers, Sequences, FiniteSets, TLC

\* ------------------------------------------------------------------ bounds
NumQS == 2          \* distinct values of (tableName, columns, filters, search, sort)
MaxIdent == 1       \* distinct function identities of each callback prop
MaxPage == 2        \* pages reachable under classic pagination
pageSize == 2       \* props.pageSize (20 by default), scaled down
MaxInFlight == 2    \* unresolved requests kept at one time
MaxData == 4        \* accumulated items kept in data
SeedLen == 1        \* items of the SSR seed (initialData.data)
MaxFetched == 3     \* successful fetches counted by nFetched
MaxEvents == 3      \* prop changes and handler calls in one run
MaxRaw == 3         \* largest integer written in a page or limit parameter
MaxCalls == 2       \* calls of the URL handlers in one run

\* ------------------------------------------------------------------ constants
DEFAULT_PAGE == 1

VARIABLES
    props,              \* props of the last committed render
    paginationMode,     \* props.paginationMode, fixed for the life of the hook
    mounted,            \* the first render has been committed
    state,              \* StoreState of the last render (= stateRef.current)
    nextState,          \* state with the queued setState calls applied
    queryKeyRef,        \* queryKeyRef.current
    isFetchingRef,      \* isFetchingRef.current
    initialDataUsedRef, \* initialDataUsedRef.current
    requests,           \* fetches whose promise has not settled, oldest first
    nFetched,           \* successful fetches merged into data since it was last emptied or replaced
    events,             \* prop changes and handler calls so far
    tableName,          \* props.tableName is supplied, fixed for the life of the hook
    options,            \* options of useDataViewUrlState, fixed for the life of the store
    searchParams,       \* useSearchParams() of the last committed render
    url,                \* target of the last router.replace that no render has shown yet
    consumer,           \* outcome of the last useDataView() call of a component
    viewMode,           \* the viewMode state of the URL store
    cookie,             \* value of the view mode cookie in document.cookie ("" when unset)
    config,             \* props the table-backed fetcher closes over
    ctx,                \* DataFetchContext handed to the table-backed fetcher
    query,              \* calls made on the query builder, in order (<<>> before the fetcher ran)
    observer            \* the IntersectionObserver of the infinite-scroll sentinel

\* The state of the URL store and of the context facade.
storeVars == <<options, searchParams, url, consumer>>

\* The view mode of the URL store.
viewVars == <<viewMode, cookie>>

\* The table-backed fetcher.
fetcherVars == <<config, ctx, query>>

\* The infinite-scroll sentinel.
scrollVars == <<observer>>

vars == <<props, paginationMode, mounted, state, nextState, queryKeyRef,
          isFetchingRef, initialDataUsedRef, requests, nFetched, events,
          tableName, storeVars, viewVars, fetcherVars, scrollVars>>

Min(a, b) == IF a < b THEN a ELSE b

\* ------------------------------------------------------------------ props
\* Callback props: 0 is undefined, any other number is a function identity.
Props(mode) ==
    [qs : 1..NumQS,
     customFetcher : 0..MaxIdent,
     baseQuery : 0..MaxIdent,
     onDataLoaded : 0..MaxIdent,
     currentPage : IF mode = "classic" THEN 1..MaxPage ELSE {1},
     enabled : BOOLEAN]

\* createQueryKey: the JSON string of tableName, columns, filters, search, sort
\* and the presence of a custom fetcher.
createQueryKey(p) == [qs |-> p.qs, hasCustomFetcher |-> p.customFetcher # 0]

\* The initial value '' of queryKeyRef, which no JSON.stringify result equals.
NoKey == [qs |-> 0, hasCustomFetcher |-> FALSE]

\* currentPageRef.current as the effect reads it: assigned from the currentPage
\* of the render whose effect is running.
currentPageRef(p) == p.currentPage

\* Math.ceil(a / b) for a >= 0 and b > 0
ceil(a, b) == (a + b - 1) \div b

\* hasMore of the hook's return value in a render with props p and state st.
hasMore(mode, p, st) ==
    IF mode = "classic"
    THEN currentPageRef(p) < ceil(st.count, pageSize)
    ELSE st.count > Len(st.data)

\* ------------------------------------------------------------------ backend
\* The external data source: for query state q it holds Count(q) rows and
\* answers an inclusive range [skip, skip + pageSize - 1] with the exact count.
Count(q) == q + 1

Row(q, i, t) == [k |-> q, i |-> i, t |-> t]

Range(q, skip, limit) ==
    [j \in 1..(Min(skip + limit, Count(q)) - Min(skip, Count(q))) |-> Row(q, skip + j, 0)]

\* onDataLoaded: the transform's output replaces the raw page.
Transformed(rows) == [j \in 1..Len(rows) |-> Row(rows[j].k, rows[j].i, 1)]

\* ------------------------------------------------------------------ state
EmptyState ==
    [data |-> <<>>, count |-> 0, isSuccess |-> FALSE, isLoading |-> TRUE,
     isFetching |-> FALSE, error |-> "null", hasInitialFetch |-> FALSE]

SeededState(q) ==
    [data |-> Range(q, 0, SeedLen), count |-> Count(q), isSuccess |-> TRUE,
     isLoading |-> FALSE, isFetching |-> FALSE, error |-> "null",
     hasInitialFetch |-> TRUE]

\* ------------------------------------------------------------------ fetchPage
\* fetchPage without its "we already have all data" guard.
fetchPageProceeds_NoAllDataGuard(p, st, fref, isReset) == p.enabled /\ ~fref

\* The guards of fetchPage: TRUE when the call goes on to invoke the fetcher.
\* st is stateRef.current, fref is isFetchingRef.current at the call.
fetchPageProceeds(p, st, fref, isReset) ==
    /\ p.enabled
    /\ ~fref
    /\ ~(/\ paginationMode # "classic"
         /\ ~isReset
         /\ st.hasInitialFetch
         /\ st.count <= Len(st.data))

\* The DataFetchContext and the closure values a started fetch carries
\* (customFetcher || supabaseFetcher, onDataLoaded); byRefetch marks the request
\* that a call of refetch() started.
createFetchContext(p, skip, isReset) ==
    LET isClassicMode == paginationMode = "classic"
        page == IF isClassicMode THEN currentPageRef(p) ELSE (skip \div pageSize) + 1
        actualSkip == IF isClassicMode THEN (currentPageRef(p) - 1) * pageSize ELSE skip
    IN [page |-> page, pageSize |-> pageSize, skip |-> actualSkip, qs |-> p.qs,
        isReset |-> isReset, isClassicMode |-> isClassicMode,
        onDataLoaded |-> p.onDataLoaded, customFetcher |-> p.customFetcher,
        byRefetch |-> FALSE]

\* setState(prev => ({ ...prev, isFetching: true, isLoading: !prev.hasInitialFetch || isReset }))
MarkFetching(ns, isReset) ==
    [ns EXCEPT !.isFetching = TRUE, !.isLoading = (~ns.hasInitialFetch) \/ isReset]

\* fetchPage without "isFetchingRef.current = true".
fetchPage_FlagNotSet(p, st, ns, fref, reqs, skip, isReset) ==
    IF fetchPageProceeds(p, st, fref, isReset)
    THEN [ref |-> fref,
          ns |-> MarkFetching(ns, isReset),
          reqs |-> Append(reqs, createFetchContext(p, skip, isReset))]
    ELSE [ref |-> fref, ns |-> ns, reqs |-> reqs]

\* The synchronous part of fetchPage(skip, isReset), up to the await of the
\* fetcher: the values of isFetchingRef, the queued state and the requests after it.
fetchPage(p, st, ns, fref, reqs, skip, isReset) ==
    IF fetchPageProceeds(p, st, fref, isReset)
    THEN [ref |-> TRUE,
          ns |-> MarkFetching(ns, isReset),
          reqs |-> Append(reqs, createFetchContext(p, skip, isReset))]
    ELSE [ref |-> fref, ns |-> ns, reqs |-> reqs]

\* ------------------------------------------------------------------ effect
\* pageChanged of the fetch effect.
pageChanged(p) == paginationMode = "classic" /\ currentPageRef(p) # p.currentPage

\* The effect without its initialData early return.
skipsSeededMount_Never(isFirstMount, pageHasChanged) == FALSE

\* "If we have initialData and this is the first mount, don't fetch".
skipsSeededMount(isFirstMount, pageHasChanged) ==
    isFirstMount /\ initialDataUsedRef /\ ~pageHasChanged

\* The effect fetching on every run.
shouldFetch_Always(isFirstMount, queryKeyChanged, pageHasChanged) == TRUE

\* "Fetch if: first mount without initial data, OR query key changed, OR page
\* changed (classic mode)".
shouldFetch(isFirstMount, queryKeyChanged, pageHasChanged) ==
    isFirstMount \/ queryKeyChanged \/ pageHasChanged

\* The effect never resetting the state.
shouldReset_Never(isFirstMount, queryKeyChanged, pageHasChanged) == FALSE

\* "Reset state for query key changes (not first mount with no data, not page
\* changes in classic mode)".
shouldReset(isFirstMount, queryKeyChanged, pageHasChanged) ==
    queryKeyChanged /\ ~isFirstMount /\ ~pageHasChanged

\* The state the effect sets on a query key change.
ResetState ==
    [data |-> <<>>, count |-> 0, isSuccess |-> FALSE, isLoading |-> TRUE,
     isFetching |-> FALSE, error |-> "null", hasInitialFetch |-> FALSE]

\* The fetch effect of a render with props p, run when the committed state is st.
\* It yields queryKeyRef, isFetchingRef, the queued state and the requests after it.
fetchEffect(p, st, kref, fref, reqs) ==
    LET currentQueryKey == createQueryKey(p)
        isFirstMount == kref = NoKey
        queryKeyChanged == kref # currentQueryKey
        isClassicMode == paginationMode = "classic"
        key == IF queryKeyChanged THEN currentQueryKey ELSE kref
        reset == shouldReset(isFirstMount, queryKeyChanged, pageChanged(p))
        ns == IF reset THEN ResetState ELSE st
        skip == IF isClassicMode THEN (currentPageRef(p) - 1) * pageSize ELSE 0
        f == fetchPage(p, st, ns, FALSE, reqs, skip, TRUE)
    IN IF ~p.enabled
       THEN [key |-> kref, ref |-> fref, ns |-> st, reqs |-> reqs, reset |-> FALSE]
       ELSE IF skipsSeededMount(isFirstMount, pageChanged(p))
       THEN [key |-> key, ref |-> fref, ns |-> st, reqs |-> reqs, reset |-> FALSE]
       ELSE IF shouldFetch(isFirstMount, queryKeyChanged, pageChanged(p))
       THEN [key |-> key, ref |-> f.ref, ns |-> f.ns, reqs |-> f.reqs, reset |-> reset]
       ELSE [key |-> key, ref |-> fref, ns |-> st, reqs |-> reqs, reset |-> FALSE]

\* fetchPage is re-created when one of its dependencies, or one of
\* supabaseFetcher's, changes identity.
fetchPageChanged(p, q) ==
    \/ p.enabled # q.enabled
    \/ p.customFetcher # q.customFetcher
    \/ p.baseQuery # q.baseQuery
    \/ p.onDataLoaded # q.onDataLoaded
    \/ p.qs # q.qs

\* The dependency array of the fetch effect.
effectDepsChanged(p, q) ==
    \/ createQueryKey(p) # createQueryKey(q)
    \/ p.enabled # q.enabled
    \/ fetchPageChanged(p, q)
    \/ p.currentPage # q.currentPage

\* ------------------------------------------------------------------ URL store
\* useDataViewUrlState.  A URL is the record of its parameters; q, search and
\* sort hold '' when the parameter is missing or empty (params.get(k) || ...
\* treats both alike), page and limit hold a raw value, and each filter id
\* holds the segments of its comma-joined value (<<>> when it is missing).
Groups == {"g1", "g2"}

\* FilterGroup.mode of the configured groups.
FilterMode(g) == IF g = "g1" THEN "single" ELSE "multiple"

\* FilterOption.value of the options of a group.
Values == {"a", "b"}

Absent == [kind |-> "absent", n |-> 0]

\* A value that parseInt turns into NaN.
Text == [kind |-> "text", n |-> 0]

\* String(k), the text of the integer k.
Num(k) == [kind |-> "int", n |-> k]

RawNumbers == {Absent, Text} \cup {Num(k) : k \in -1..MaxRaw}

\* A URL without parameters.  The fields q, search, sort, page, limit and f
\* are the parameters named getParamKey(key) for the keys of the store;
\* other holds the q and page parameters under the other prefix, OtherPrefix.
NoParams ==
    [q |-> "", search |-> "", sort |-> "", page |-> Absent, limit |-> Absent,
     f |-> [g \in Groups |-> <<>>],
     other |-> [q |-> "", page |-> Absent]]

\* The options the provider passes: the defaultValue of each filter group (<<>>
\* when it has none), defaultSort ('' when undefined), resetPageOnChange,
\* defaultLimit, forcedViewMode ('' when undefined) and defaultViewMode.
Options ==
    [filters : [Groups -> {<<>>, <<"a">>}],
     defaultSort : {"", "s2"},
     resetPageOnChange : BOOLEAN,
     defaultLimit : {pageSize},
     forcedViewMode : {""},
     defaultViewMode : {"list"},
     urlNamespace : {"", "N"}]

\* getParamKey that leaves the prefix out.
getParamKey_NoPrefix(o, key) == <<"", key>>

\* getParamKey(key): `${urlNamespace}_${key}` or key, as the pair of the
\* prefix and the key.
getParamKey(o, key) == <<o.urlNamespace, key>>

\* The prefix of the parameters kept in other: those of a store with
\* namespace M next to an un-namespaced store, the un-namespaced ones next to
\* a namespaced store.
OtherPrefix(o) == IF o.urlNamespace = "" THEN "M" ELSE ""

Max(a, b) == IF a > b THEN a ELSE b

\* parseInt(raw, 10) || fallback
parseIntOr(raw, fallback) ==
    IF raw.kind # "int" \/ raw.n = 0 THEN fallback ELSE raw.n

currentSearch(sp) ==
    IF sp.q # "" THEN sp.q ELSE IF sp.search # "" THEN sp.search ELSE ""

\* paramValue.split(',').filter(Boolean)
splitValues(segments) == SelectSeq(segments, LAMBDA t : t # "")

\* currentFilters: a group without a key in the result has the active set <<>>.
currentFilters(o, sp) ==
    [g \in Groups |->
        IF sp.f[g] # <<>> /\ sp.f[g] # <<"">>
        THEN splitValues(sp.f[g])
        ELSE o.filters[g]]

currentSort(o, sp) == IF sp.sort # "" THEN sp.sort ELSE o.defaultSort

currentPage(sp) ==
    IF sp.page.kind # "absent"
    THEN Max(1, parseIntOr(sp.page, DEFAULT_PAGE))
    ELSE DEFAULT_PAGE

currentLimit(o, sp) ==
    IF sp.limit.kind # "absent"
    THEN parseIntOr(sp.limit, o.defaultLimit)
    ELSE o.defaultLimit

\* updateUrl that never removes the page parameter.
updateUrl_KeepsPage(o, sp, keys, val, resetPage) ==
    LET names == {getParamKey(o, k) : k \in keys}
        own == o.urlNamespace
        there == OtherPrefix(o)
    IN [q |-> IF <<own, "q">> \in names THEN val.q ELSE sp.q,
        search |-> sp.search,
        sort |-> IF <<own, "sort">> \in names THEN val.sort ELSE sp.sort,
        page |-> IF <<own, "page">> \in names THEN val.page ELSE sp.page,
        limit |-> IF <<own, "limit">> \in names THEN val.limit ELSE sp.limit,
        f |-> [g \in Groups |-> IF <<own, g>> \in names THEN val.f[g] ELSE sp.f[g]],
        other |-> [q |-> IF <<there, "q">> \in names THEN val.q ELSE sp.other.q,
                   page |-> IF <<there, "page">> \in names THEN val.page
                            ELSE sp.other.page]]

\* updateUrl(updates, { resetPage }): the URL it hands to router.replace.  keys
\* are the keys of updates and val holds their values, a deleted parameter
\* being the missing value of its kind; sp is the searchParams of its closure.
\* params is a copy of sp in which the parameter named getParamKey(key) is set
\* or deleted for every key of updates, and pageKey is deleted on a page reset.
updateUrl(o, sp, keys, val, resetPage) ==
    LET names == {getParamKey(o, k) : k \in keys}
        own == o.urlNamespace
        there == OtherPrefix(o)
        params ==
            [q |-> IF <<own, "q">> \in names THEN val.q ELSE sp.q,
             search |-> sp.search,
             sort |-> IF <<own, "sort">> \in names THEN val.sort ELSE sp.sort,
             page |-> IF <<own, "page">> \in names THEN val.page ELSE sp.page,
             limit |-> IF <<own, "limit">> \in names THEN val.limit ELSE sp.limit,
             f |-> [g \in Groups |-> IF <<own, g>> \in names THEN val.f[g] ELSE sp.f[g]],
             other |-> [q |-> IF <<there, "q">> \in names THEN val.q ELSE sp.other.q,
                        page |-> IF <<there, "page">> \in names THEN val.page
                                 ELSE sp.other.page]]
        pageKey == getParamKey(o, "page")
    IN IF resetPage /\ "page" \notin keys
       THEN IF pageKey = <<own, "page">> THEN [params EXCEPT !.page = Absent]
            ELSE IF pageKey = <<there, "page">> THEN [params EXCEPT !.other.page = Absent]
            ELSE params
       ELSE params

handleSearchChange(o, sp, value) ==
    updateUrl(o, sp, {"q"}, [NoParams EXCEPT !.q = value], o.resetPageOnChange)

\* values.length > 0 ? values.join(',') : null, for every configured group.
handleFiltersChange(o, sp, newFilters) ==
    updateUrl(o, sp, Groups, [NoParams EXCEPT !.f = newFilters], o.resetPageOnChange)

handleSortChange(o, sp, value) ==
    updateUrl(o, sp, {"sort"}, [NoParams EXCEPT !.sort = value], o.resetPageOnChange)

handlePageChange(o, sp, page) ==
    updateUrl(o, sp, {"page"},
              [NoParams EXCEPT !.page = IF page > 1 THEN Num(page) ELSE Absent], FALSE)

handleLimitChange(o, sp, limit) ==
    updateUrl(o, sp, {"limit"},
              [NoParams EXCEPT !.limit = IF limit # o.defaultLimit THEN Num(limit) ELSE Absent],
              o.resetPageOnChange)

Without(values, v) == SelectSeq(values, LAMBDA x : x # v)

Includes(values, v) == \E j \in 1..Len(values) : values[j] = v

\* DataViewFilters.handleFilterChange(groupId, value, mode): the filters it
\* hands to handleFiltersChange.
handleFilterChange(o, sp, groupId, value, mode) ==
    LET existingValues == currentFilters(o, sp)[groupId]
        newValues == IF mode = "single" THEN <<value>>
                     ELSE IF Includes(existingValues, value)
                          THEN Without(existingValues, value)
                          ELSE Append(existingValues, value)
    IN [currentFilters(o, sp) EXCEPT ![groupId] = newValues]

\* DataViewFilters.clearFilters: handleFiltersChange({})
clearFilters == [g \in Groups |-> <<>>]

\* DataViewActiveTags renders tags (and its Clear All button) only when a
\* search or a filter value is active.
hasActiveTags(o, sp) ==
    \/ currentSearch(sp) # ""
    \/ \E g \in Groups : currentFilters(o, sp)[g] # <<>>

\* handleClearAll: the URLs it hands to router.replace, in call order.  Both
\* handlers are the callbacks of one render, so both start from sp.
handleClearAll(o, sp) ==
    (IF currentSearch(sp) # "" THEN <<handleSearchChange(o, sp, "")>> ELSE <<>>)
        \o <<handleFiltersChange(o, sp, clearFilters)>>

\* ------------------------------------------------------------------ view mode
\* useState(forcedViewMode || defaultViewMode)
initialViewMode(o) ==
    IF o.forcedViewMode # "" THEN o.forcedViewMode ELSE o.defaultViewMode

\* The mount effect: the view mode after reading the cookie value ck.
cookieEffect(o, vm, ck) ==
    IF o.forcedViewMode # "" THEN vm
    ELSE IF ck \in {"list", "grid"} THEN ck
    ELSE vm

\* handleViewModeChange that does not look at forcedViewMode.
handleViewModeChange_IgnoresForced(o, vm, ck, mode) ==
    [viewMode |-> mode, cookie |-> mode]

\* handleViewModeChange(mode): the view mode and the cookie it leaves.
handleViewModeChange(o, vm, ck, mode) ==
    IF o.forcedViewMode # "" THEN [viewMode |-> vm, cookie |-> ck]
    ELSE [viewMode |-> mode, cookie |-> mode]

\* ------------------------------------------------------------------ facade
\* createContext<DataViewContextValue | null>(null)
NoContext == <<>>

\* The part of the provider's context value that the URL store supplies.
contextValue ==
    [currentSearch |-> currentSearch(searchParams),
     currentFilters |-> currentFilters(options, searchParams),
     currentSort |-> currentSort(options, searchParams),
     currentPage |-> currentPage(searchParams),
     currentLimit |-> currentLimit(options, searchParams)]

NotCalled == [threw |-> FALSE, message |-> "", value |-> <<>>]

\* useDataView that returns whatever useContext gives it.
useDataView_NoCheck(context) ==
    [threw |-> FALSE, message |-> "", value |-> context]

\* useDataView(): context is <<>> for null and <<v>> for the value v.
useDataView(context) ==
    IF context = <<>>
    THEN [threw |-> TRUE,
          message |-> "useDataView must be used within a DataViewProvider",
          value |-> <<>>]
    ELSE [threw |-> FALSE, message |-> "", value |-> context]

\* ------------------------------------------------------------------ table-backed fetcher
\* The request supabaseFetcher builds is the sequence of the calls it makes on
\* the query builder.  A string that the code trims or splits is a sequence
\* of tokens: " " is a blank and ":" the separator of a sort value.

\* FilterOperator: the operators a filter mapping may name.
FilterOperator ==
    {"eq", "neq", "in", "ilike", "like", "gt", "gte", "lt", "lte", "contains", "cs", "is"}

\* mapping.transform: a function of the caller; the one of the model rewrites
\* every value.
Upper(v) == IF v = "a" THEN "A" ELSE IF v = "b" THEN "B" ELSE v

transform(values) == [i \in 1..Len(values) |-> Upper(values[i])]

\* filters[mapping.filterId], undefined (<<>>) for an id without a key.
valuesOf(filters, filterId) ==
    IF filterId \in DOMAIN filters THEN filters[filterId] ELSE <<>>

\* One filtering call on the query builder.
Predicate(op, column, args) == [op |-> op, column |-> column, args |-> args]

\* The switch with the transform applied for every operator.
applyOperator_TransformsAll(mapping, values) ==
    LET transformedValues == IF mapping.transform THEN transform(values) ELSE values
        o == mapping.operator
    IN IF o \in {"eq", "neq", "gt", "gte", "lt", "lte"}
       THEN <<Predicate(o, mapping.column, <<transformedValues[1]>>)>>
       ELSE IF o \in {"ilike", "like"}
       THEN <<Predicate(o, mapping.column, <<"%", transformedValues[1], "%">>)>>
       ELSE IF o \in {"in", "contains", "is"}
       THEN <<Predicate(o, mapping.column, transformedValues)>>
       ELSE <<>>

\* The switch of applyFilters for one mapping with the active values.
applyOperator(mapping, values) ==
    LET transformedValues == IF mapping.transform THEN transform(values) ELSE values
        o == mapping.operator
    IN IF o \in {"eq", "neq", "gt", "gte", "lt", "lte"}
       THEN <<Predicate(o, mapping.column, <<values[1]>>)>>
       ELSE IF o \in {"ilike", "like"}
       THEN <<Predicate(o, mapping.column, <<"%", values[1], "%">>)>>
       ELSE IF o \in {"in", "contains", "is"}
       THEN <<Predicate(o, mapping.column, transformedValues)>>
       ELSE <<>>

RECURSIVE applyFilters(_, _, _)
applyFilters(q, filters, filterMappings) ==
    IF filterMappings = <<>> THEN q
    ELSE LET mapping == Head(filterMappings)
             values == valuesOf(filters, mapping.filterId)
         IN applyFilters(IF values = <<>> THEN q ELSE q \o applyOperator(mapping, values),
                         filters, Tail(filterMappings))

RECURSIVE trimStart(_)
trimStart(s) == IF s # <<>> /\ Head(s) = " " THEN trimStart(Tail(s)) ELSE s

RECURSIVE trimEnd(_)
trimEnd(s) ==
    IF s # <<>> /\ s[Len(s)] = " " THEN trimEnd(SubSeq(s, 1, Len(s) - 1)) ELSE s

\* String.prototype.trim
trim(s) == trimEnd(trimStart(s))

\* columns.map(col => `${col}.ilike.%${trimmedSearch}%`).join(',')
RECURSIVE orConditions(_, _)
orConditions(columns, trimmedSearch) ==
    IF Len(columns) = 1
    THEN <<columns[1], ".ilike.", "%">> \o trimmedSearch \o <<"%">>
    ELSE <<Head(columns), ".ilike.", "%">> \o trimmedSearch \o <<"%", ",">>
            \o orConditions(Tail(columns), trimmedSearch)

\* applySearch that matches on the text as typed.
applySearch_NoTrim(q, search, searchColumn, searchColumns) ==
    LET columns == IF searchColumns # <<>> THEN searchColumns
                   ELSE IF searchColumn # "" THEN <<searchColumn>> ELSE <<>>
    IN IF search = <<>> THEN q
       ELSE IF columns = <<>> THEN q
       ELSE IF Len(columns) = 1
       THEN Append(q, Predicate("ilike", columns[1], <<"%">> \o search \o <<"%">>))
       ELSE Append(q, Predicate("or", "", orConditions(columns, search)))

applySearch(q, search, searchColumn, searchColumns) ==
    LET trimmedSearch == trim(search)
        columns == IF searchColumns # <<>> THEN searchColumns
                   ELSE IF searchColumn # "" THEN <<searchColumn>> ELSE <<>>
    IN IF trimmedSearch = <<>> THEN q
       ELSE IF columns = <<>> THEN q
       ELSE IF Len(columns) = 1
       THEN Append(q, Predicate("ilike", columns[1], <<"%">> \o trimmedSearch \o <<"%">>))
       ELSE Append(q, Predicate("or", "", orConditions(columns, trimmedSearch)))

\* sort.split(':'): the segments between the separators.
RECURSIVE split(_)
split(s) ==
    IF \A i \in 1..Len(s) : s[i] # ":" THEN <<s>>
    ELSE LET i == CHOOSE k \in 1..Len(s) : s[k] = ":" /\ \A j \in 1..(k - 1) : s[j] # ":"
         IN <<SubSeq(s, 1, i - 1)>> \o split(SubSeq(s, i + 1, Len(s)))

\* query.order(column, { ascending })
Order(column, ascending) == [op |-> "order", column |-> column, ascending |-> ascending]

\* props.defaultSort left undefined.
NoDefaultSort == [given |-> FALSE, column |-> <<>>, ascending |-> TRUE]

\* applySort that prefers the default sort.
applySort_DefaultWins(q, sort, defaultSort) ==
    IF defaultSort.given
    THEN Append(q, Order(defaultSort.column, defaultSort.ascending))
    ELSE IF sort # <<>>
    THEN LET segments == split(sort)
         IN Append(q, Order(segments[1], Len(segments) < 2 \/ segments[2] # <<"desc">>))
    ELSE q

applySort(q, sort, defaultSort) ==
    IF sort # <<>>
    THEN LET segments == split(sort)
         IN Append(q, Order(segments[1], Len(segments) < 2 \/ segments[2] # <<"desc">>))
    ELSE IF defaultSort.given
    THEN Append(q, Order(defaultSort.column, defaultSort.ascending))
    ELSE q

\* The query supabaseFetcher awaits; baseQuery is the caller's function,
\* recorded as the call it is.
supabaseFetcher(c, x) ==
    LET selected == <<[op |-> "select"]>>
        based == IF c.baseQuery # 0
                 THEN Append(selected, [op |-> "baseQuery", id |-> c.baseQuery])
                 ELSE selected
        filtered == applyFilters(based, x.filters, c.filterMappings)
        searched == IF x.search # <<>> /\ (c.searchColumn # "" \/ c.searchColumns # <<>>)
                    THEN applySearch(filtered, x.search, c.searchColumn, c.searchColumns)
                    ELSE filtered
        sorted == applySort(searched, x.sort, c.defaultSort)
    IN Append(sorted, [op |-> "range", from |-> x.skip, to |-> x.skip + x.pageSize - 1])

\* ------------------------------------------------------------------ actions
\* The variables of the fetch hook, the event counter apart.
hookVars == <<props, paginationMode, mounted, state, nextState, queryKeyRef,
              isFetchingRef, initialDataUsedRef, requests, nFetched>>

\* The URL store and the facade at rest: no parameter, no default, no call.
StoreIdle ==
    /\ options = [filters |-> [g \in Groups |-> <<>>], defaultSort |-> "",
                  resetPageOnChange |-> (paginationMode = "classic"),
                  defaultLimit |-> pageSize,
                  forcedViewMode |-> "", defaultViewMode |-> "list",
                  urlNamespace |-> ""]
    /\ searchParams = NoParams
    /\ url = <<>>
    /\ consumer = NotCalled
    /\ viewMode = "list"
    /\ cookie = ""

\* The table-backed fetcher before any call, with nothing to compile.
FetcherIdle ==
    /\ config = [filterMappings |-> <<>>, searchColumn |-> "", searchColumns |-> <<>>,
                 defaultSort |-> NoDefaultSort, baseQuery |-> 0]
    /\ ctx = [filters |-> [g \in Groups |-> <<>>], search |-> <<>>, sort |-> <<>>,
              skip |-> 0, pageSize |-> pageSize]
    /\ query = <<>>

\* The hook before its first render.
InitHook ==
    /\ paginationMode \in {"infinite", "classic"}
    /\ props \in Props(paginationMode)
    /\ mounted = FALSE
    /\ initialDataUsedRef \in BOOLEAN
    /\ state = IF initialDataUsedRef THEN SeededState(props.qs) ELSE EmptyState
    /\ nextState = state
    /\ queryKeyRef = NoKey
    /\ isFetchingRef = FALSE
    /\ requests = <<>>
    /\ nFetched = 0
    /\ events = 0
    /\ observer = "none"

Init == InitHook /\ tableName = TRUE /\ StoreIdle /\ FetcherIdle

\* A commit of the hook: the queued state becomes the rendered state, and the
\* effect runs when run is TRUE.
CommitRender(p, run) ==
    LET e == fetchEffect(p, nextState, queryKeyRef, isFetchingRef, requests)
    IN /\ props' = p
       /\ state' = nextState
       /\ IF run
          THEN /\ Len(e.reqs) <= MaxInFlight
               /\ queryKeyRef' = e.key
               /\ isFetchingRef' = e.ref
               /\ nextState' = e.ns
               /\ requests' = e.reqs
               /\ nFetched' = IF e.reset THEN 0 ELSE nFetched
          ELSE UNCHANGED <<queryKeyRef, isFetchingRef, nextState, requests, nFetched>>
       /\ UNCHANGED <<paginationMode, initialDataUsedRef, tableName, viewVars, fetcherVars>>

\* A commit that leaves the sentinel as it was.
CommitHook(p, run) == CommitRender(p, run) /\ UNCHANGED scrollVars

\* A commit with the URL store as it was.
Commit(p, run) == CommitHook(p, run) /\ UNCHANGED storeVars

\* The first render and its effect.
Mount ==
    /\ ~mounted
    /\ mounted' = TRUE
    /\ UNCHANGED events
    /\ Commit(props, TRUE)

\* A render caused by the parent passing new props p.  One prop changes per
\* render: a change of several props is the same sequence of effect runs as
\* the changes one after the other with the key-relevant one last.
PropsChange(p) ==
    /\ mounted
    /\ Cardinality({f \in DOMAIN p : p[f] # props[f]}) = 1
    /\ events < MaxEvents
    /\ events' = events + 1
    /\ UNCHANGED mounted
    /\ Commit(p, effectDepsChanged(p, props))

\* A render with the same props (a queued setState, or the parent rendering
\* again); other is TRUE when a dependency of supabaseFetcher that the props
\* record leaves out (filterMappings, searchColumn, searchColumns, defaultSort)
\* changed identity.
Rerender(other) ==
    /\ mounted
    /\ UNCHANGED <<mounted, events>>
    /\ Commit(props, other \/ effectDepsChanged(props, props))

\* A success that appends in every mode.
Success_AlwaysAppends(ns, r, rows) ==
    [data |-> ns.data \o rows,
     count |-> Count(r.qs), isSuccess |-> TRUE, isLoading |-> FALSE,
     isFetching |-> FALSE, error |-> "null", hasInitialFetch |-> TRUE]

\* A success that leaves the error of an earlier failure in place.
Success_KeepsError(ns, r, rows) ==
    [data |-> IF r.isClassicMode \/ r.isReset THEN rows ELSE ns.data \o rows,
     count |-> Count(r.qs), isSuccess |-> TRUE, isLoading |-> FALSE,
     isFetching |-> FALSE, error |-> ns.error, hasInitialFetch |-> TRUE]

\* A successful result merged into the queued state.
Success(ns, r, rows) ==
    [data |-> IF r.isClassicMode \/ r.isReset THEN rows ELSE ns.data \o rows,
     count |-> Count(r.qs), isSuccess |-> TRUE, isLoading |-> FALSE,
     isFetching |-> FALSE, error |-> "null", hasInitialFetch |-> TRUE]

\* A failure that drops the displayed data.
Failure_ClearsData(ns, err) ==
    [ns EXCEPT !.error = err, !.isFetching = FALSE, !.isLoading = FALSE,
               !.data = <<>>, !.count = 0]

\* A failure merged into the queued state.
Failure(ns, err) ==
    [ns EXCEPT !.error = err, !.isFetching = FALSE, !.isLoading = FALSE]

Remove(s, i) == [j \in 1..(Len(s) - 1) |-> IF j < i THEN s[j] ELSE s[j + 1]]

\* The fetcher of request i can resolve: supabaseFetcher throws when it has no
\* tableName, a custom fetcher does as it likes.
HasSource(r) == r.customFetcher # 0 \/ tableName

\* The fetcher of request i resolves with a result that carries no error and
\* the transform, when there is one, resolves too.
ResolveOk(i) ==
    /\ i \in 1..Len(requests)
    /\ HasSource(requests[i])
    /\ LET r == requests[i]
           raw == Range(r.qs, r.skip, r.pageSize)
           rows == IF r.onDataLoaded # 0 THEN Transformed(raw) ELSE raw
           merged == Success(nextState, r, rows)
       IN /\ Len(merged.data) <= MaxData
          /\ r.isClassicMode \/ r.isReset \/ nFetched < MaxFetched
          /\ requests' = Remove(requests, i)
          /\ isFetchingRef' = FALSE
          /\ nextState' = merged
          /\ nFetched' = IF r.isClassicMode \/ r.isReset THEN 1 ELSE nFetched + 1
    /\ UNCHANGED <<props, paginationMode, mounted, state, queryKeyRef, initialDataUsedRef, events, tableName, storeVars, viewVars, fetcherVars, scrollVars>>

\* The fetcher of request i resolves with a result whose error is set.
ResolveError(i) ==
    /\ i \in 1..Len(requests)
    /\ HasSource(requests[i])
    /\ requests' = Remove(requests, i)
    /\ isFetchingRef' = FALSE
    /\ nextState' = Failure(nextState, "result")
    /\ UNCHANGED <<props, paginationMode, mounted, state, queryKeyRef, initialDataUsedRef, nFetched, events, tableName, storeVars, viewVars, fetcherVars, scrollVars>>

\* A rejection that leaves the in-flight flag set.
ResolveThrow_KeepsFlag(i) ==
    /\ i \in 1..Len(requests)
    /\ requests' = Remove(requests, i)
    /\ isFetchingRef' = isFetchingRef
    /\ nextState' = Failure(nextState, "thrown")
    /\ UNCHANGED <<props, paginationMode, mounted, state, queryKeyRef, initialDataUsedRef, nFetched, events, tableName, storeVars, viewVars, fetcherVars, scrollVars>>

\* The fetcher of request i rejects, or its transform rejects or throws.
ResolveThrow(i) ==
    /\ i \in 1..Len(requests)
    /\ requests' = Remove(requests, i)
    /\ isFetchingRef' = FALSE
    /\ nextState' = Failure(nextState, "thrown")
    /\ UNCHANGED <<props, paginationMode, mounted, state, queryKeyRef, initialDataUsedRef, nFetched, events, tableName, storeVars, viewVars, fetcherVars, scrollVars>>

Same == [ref |-> isFetchingRef, ns |-> nextState, reqs |-> requests]

\* A call of a handler: f is what its fetchPage call returns.  A call that
\* changes nothing is not counted as an event.
HandlerCall(f) ==
    /\ mounted
    /\ Len(f.reqs) <= MaxInFlight
    /\ isFetchingRef' = f.ref
    /\ nextState' = f.ns
    /\ requests' = f.reqs
    /\ IF f = Same
       THEN UNCHANGED events
       ELSE events < MaxEvents /\ events' = events + 1
    /\ UNCHANGED <<props, paginationMode, mounted, state, queryKeyRef, initialDataUsedRef, nFetched,
                   tableName, storeVars, viewVars, fetcherVars>>

\* A handler called by a component other than the sentinel.
Handler(f) == HandlerCall(f) /\ UNCHANGED scrollVars

fetchNextPageResult ==
    IF isFetchingRef \/ ~props.enabled THEN Same
    ELSE IF paginationMode = "classic" THEN Same
    ELSE fetchPage(props, state, nextState, isFetchingRef, requests, Len(state.data), FALSE)

FetchNextPage == Handler(fetchNextPageResult)

fetchPageNumberResult(page) ==
    IF isFetchingRef \/ ~props.enabled THEN Same
    ELSE IF paginationMode # "classic" THEN Same
    ELSE fetchPage(props, state, nextState, isFetchingRef, requests,
                   (page - 1) * pageSize, TRUE)

FetchPageNumber(page) == Handler(fetchPageNumberResult(page))

\* refetch appending to data as fetchNextPage does.
refetchResult_Appends ==
    fetchPage(props, state, [nextState EXCEPT !.isFetching = TRUE, !.error = "null"],
              isFetchingRef, requests, 0, FALSE)

\* refetch emptying data first, as a cache key change does.
refetchResult_ClearsData ==
    LET f == fetchPage(props, state, [ResetState EXCEPT !.isFetching = TRUE],
                       isFetchingRef, requests, 0, TRUE)
    IN IF Len(f.reqs) > Len(requests)
       THEN [f EXCEPT !.reqs[Len(f.reqs)].byRefetch = TRUE]
       ELSE f

refetchResult ==
    LET f == fetchPage(props, state, [nextState EXCEPT !.isFetching = TRUE, !.error = "null"],
                       isFetchingRef, requests, 0, TRUE)
    IN IF Len(f.reqs) > Len(requests)
       THEN [f EXCEPT !.reqs[Len(f.reqs)].byRefetch = TRUE]
       ELSE f

Refetch == Handler(refetchResult)

Next ==
    \/ Mount
    \/ \E p \in Props(paginationMode) : PropsChange(p)
    \/ \E other \in BOOLEAN : Rerender(other)
    \/ \E i \in 1..MaxInFlight : ResolveOk(i)
    \/ \E i \in 1..MaxInFlight : ResolveError(i)
    \/ \E i \in 1..MaxInFlight : ResolveThrow(i)
    \/ FetchNextPage
    \/ \E page \in 1..MaxPage : FetchPageNumber(page)
    \/ Refetch

Spec == Init /\ [][Next]_vars

\* The hook of a caller that supplies no tableName.
InitNoTable == InitHook /\ tableName = FALSE /\ StoreIdle /\ FetcherIdle

SpecNoTable == InitNoTable /\ [][Next]_vars

\* ------------------------------------------------------------------ infinite scroll
\* DataViewInfiniteScroll under paginationType 'infinite-scroll', with a
\* sentinel that is inside the viewport whenever it is rendered.  observer is
\* "none" (no IntersectionObserver is connected), "armed" (one was created and
\* has not delivered its first callback), "fired" (the callback ran: a sentinel
\* that stays visible gets no second one) or "thrown" (a render of the
\* component threw and its error boundary has replaced it).

\* The render gets past "if (!hasMore) return null" and goes on to useEffect.
sentinelRendered(p, st) == hasMore(paginationMode, p, st)

\* useRef is called before the early return and useEffect after it: the two
\* renders call a different number of hooks, which React answers by throwing
\* ("Rendered more hooks than during the previous render" / "Rendered fewer
\* hooks than expected").
hooksChanged(p, old, new) == sentinelRendered(p, old) # sentinelRendered(p, new)

\* The observer after the render that shows new where the one before showed
\* old: the effect has the dependencies [hasMore, isFetching, fetchNextPage],
\* disconnects the observer it made, and makes one unless !hasMore || isFetching.
sentinelEffect(obs, p, old, new, isFirstRender, fetchNextPageChanged) ==
    IF obs = "thrown" THEN "thrown"
    ELSE IF ~isFirstRender /\ hooksChanged(p, old, new) THEN "thrown"
    ELSE IF ~sentinelRendered(p, new) THEN "none"
    ELSE IF isFirstRender \/ old.isFetching # new.isFetching \/ fetchNextPageChanged
    THEN IF new.isFetching THEN "none" ELSE "armed"
    ELSE obs

\* The first render of the provider and of the sentinel inside it.
ScrollMount ==
    /\ ~mounted
    /\ mounted' = TRUE
    /\ UNCHANGED <<events, storeVars>>
    /\ CommitRender(props, TRUE)
    /\ observer' = sentinelEffect(observer, props, state, nextState, TRUE, FALSE)

\* A later render; other re-creates fetchPage and with it fetchNextPage.
ScrollRerender(other) ==
    /\ mounted
    /\ UNCHANGED <<mounted, events, storeVars>>
    /\ CommitRender(props, other \/ effectDepsChanged(props, props))
    /\ observer' = sentinelEffect(observer, props, state, nextState, FALSE, other)

\* The observer delivers its first entry, isIntersecting, and the callback
\* calls fetchNextPage().
Intersect ==
    /\ observer = "armed"
    /\ observer' = "fired"
    /\ HandlerCall(fetchNextPageResult)

InitScroll == Init /\ paginationMode = "infinite"

NextScroll ==
    \/ ScrollMount
    \/ \E other \in BOOLEAN : ScrollRerender(other)
    \/ \E i \in 1..MaxInFlight : ResolveOk(i)
    \/ Intersect

\* React commits a queued update, the backend answers every request it was
\* sent, and the browser delivers the first entry of an observer.
FairScroll ==
    /\ WF_vars(ScrollMount)
    /\ WF_vars(ScrollRerender(FALSE))
    /\ WF_vars(\E i \in 1..MaxInFlight : ResolveOk(i))
    /\ WF_vars(Intersect)

SpecScroll == InitScroll /\ [][NextScroll]_vars /\ FairScroll

\* ------------------------------------------------------------------ URL store actions
\* The segments a filter parameter of the first URL may hold.
RawFilters == {<<>>, <<"a">>, <<"a", "b">>, <<"", "a">>}

\* The URLs the page may be opened with.
\* The parameters under the other prefix that the page is opened with.
OtherParams == [q |-> "z", page |-> Num(2)]

InitParams ==
    {[NoParams EXCEPT !.page = p, !.limit = l, !.other = OtherParams] :
        p \in RawNumbers, l \in RawNumbers}
    \cup {[q |-> q, search |-> a, sort |-> so, page |-> Absent, limit |-> Absent, f |-> fs,
           other |-> OtherParams] :
            q \in {"", "x"}, a \in {"", "old"}, so \in {"", "s1"}, fs \in [Groups -> RawFilters]}

\* The hook is not looked at while the URL store is.
HookIdle ==
    /\ paginationMode = "classic"
    /\ props = [qs |-> 1, customFetcher |-> 0, baseQuery |-> 0, onDataLoaded |-> 0,
                currentPage |-> 1, enabled |-> TRUE]
    /\ mounted = FALSE
    /\ initialDataUsedRef = FALSE
    /\ state = EmptyState
    /\ nextState = state
    /\ queryKeyRef = NoKey
    /\ isFetchingRef = FALSE
    /\ requests = <<>>
    /\ nFetched = 0
    /\ events = 0
    /\ observer = "none"
    /\ tableName = TRUE

InitUrl ==
    /\ HookIdle
    /\ FetcherIdle
    /\ viewMode = "list"
    /\ cookie = ""
    /\ options \in Options
    /\ searchParams \in InitParams
    /\ url = <<>>
    /\ consumer = NotCalled

\* router.replace(newUrl): the target waits for the navigation to commit.
Replace(newUrl) ==
    /\ events < MaxCalls
    /\ events' = events + 1
    /\ url' = <<newUrl>>
    /\ UNCHANGED <<hookVars, tableName, options, searchParams, consumer, viewVars, fetcherVars, scrollVars>>

HandleSearchChange(value) == Replace(handleSearchChange(options, searchParams, value))

HandleFiltersChange(newFilters) ==
    Replace(handleFiltersChange(options, searchParams, newFilters))

\* A click on option value of group groupId in DataViewFilters.
HandleFilterChange(groupId, value) ==
    Replace(handleFiltersChange(options, searchParams,
                handleFilterChange(options, searchParams, groupId, value, FilterMode(groupId))))

\* A click on Clear All: of the router.replace calls of one handler the last
\* one names the URL the page ends on.
HandleClearAll ==
    /\ hasActiveTags(options, searchParams)
    /\ LET calls == handleClearAll(options, searchParams)
       IN Replace(calls[Len(calls)])

HandleSortChange(value) == Replace(handleSortChange(options, searchParams, value))

HandlePageChange(page) == Replace(handlePageChange(options, searchParams, page))

HandleLimitChange(limit) == Replace(handleLimitChange(options, searchParams, limit))

\* The navigation commits: the next render reads the new URL.
Navigate ==
    /\ url # <<>>
    /\ searchParams' = url[1]
    /\ url' = <<>>
    /\ UNCHANGED <<hookVars, events, tableName, options, consumer, viewVars, fetcherVars, scrollVars>>

\* The filters a caller hands to handleFiltersChange.
FilterInputs == {clearFilters, [g \in Groups |-> IF g = "g1" THEN <<"b">> ELSE <<"a", "b">>]}

NextUrl ==
    \/ \E value \in {"", "x"} : HandleSearchChange(value)
    \/ \E newFilters \in FilterInputs : HandleFiltersChange(newFilters)
    \/ \E groupId \in Groups, value \in Values : HandleFilterChange(groupId, value)
    \/ HandleClearAll
    \/ \E value \in {"", "s1"} : HandleSortChange(value)
    \/ \E page \in 1..MaxPage : HandlePageChange(page)
    \/ \E limit \in 1..(pageSize + 1) : HandleLimitChange(limit)
    \/ Navigate

SpecUrl == InitUrl /\ [][NextUrl]_vars

\* A component calls useDataView(), inside a DataViewProvider or outside of one.
UseDataView(inside) ==
    /\ consumer' = useDataView(IF inside THEN <<contextValue>> ELSE NoContext)
    /\ UNCHANGED <<hookVars, events, tableName, options, searchParams, url, viewVars, fetcherVars, scrollVars>>

NextFacade == \E inside \in BOOLEAN : UseDataView(inside)

SpecFacade == InitUrl /\ [][NextFacade]_vars

\* ------------------------------------------------------------------ provider
\* The hook props DataViewProvider derives from the URL store: filters, search
\* and sort are the current ones (of the query state, only the search varies
\* here), currentPage is the current page under classic pagination and
\* undefined (1 by default) otherwise, pageSize is the pageSize prop.
providerProps(mode, o, sp) ==
    [qs |-> IF currentSearch(sp) = "" THEN 1 ELSE 2,
     customFetcher |-> 0,
     baseQuery |-> 0,
     onDataLoaded |-> 0,
     currentPage |-> IF mode = "classic" THEN currentPage(sp) ELSE 1,
     enabled |-> TRUE]

\* The URLs a page with a provider is opened with.
ProviderParams ==
    {[NoParams EXCEPT !.q = q, !.page = p, !.limit = l] :
        q \in {"", "x"}, p \in {Absent, Num(MaxPage)}, l \in {Absent, Num(pageSize + 1)}}

InitProvider ==
    /\ paginationMode \in {"infinite", "classic"}
    /\ options = [filters |-> [g \in Groups |-> <<>>], defaultSort |-> "",
                  resetPageOnChange |-> (paginationMode = "classic"),
                  defaultLimit |-> pageSize,
                  forcedViewMode |-> "", defaultViewMode |-> "list",
                  urlNamespace |-> ""]
    /\ searchParams \in ProviderParams
    /\ url = <<>>
    /\ consumer = NotCalled
    /\ viewMode = "list"
    /\ cookie = ""
    /\ FetcherIdle
    /\ tableName = TRUE
    /\ props = providerProps(paginationMode, options, searchParams)
    /\ mounted = FALSE
    /\ initialDataUsedRef \in BOOLEAN
    /\ state = IF initialDataUsedRef THEN SeededState(props.qs) ELSE EmptyState
    /\ nextState = state
    /\ queryKeyRef = NoKey
    /\ isFetchingRef = FALSE
    /\ requests = <<>>
    /\ nFetched = 0
    /\ events = 0
    /\ observer = "none"

\* The navigation commits: the provider renders with the new URL and hands
\* the hook the props derived from it.
ProviderNavigate ==
    /\ mounted
    /\ url # <<>>
    /\ searchParams' = url[1]
    /\ url' = <<>>
    /\ UNCHANGED <<mounted, events, options, consumer>>
    /\ LET p == providerProps(paginationMode, options, url[1])
       IN CommitHook(p, effectDepsChanged(p, props))

NextProvider ==
    \/ Mount
    \/ \E other \in BOOLEAN : Rerender(other)
    \/ \E i \in 1..MaxInFlight : ResolveOk(i)
    \/ \E i \in 1..MaxInFlight : ResolveError(i)
    \/ \E i \in 1..MaxInFlight : ResolveThrow(i)
    \/ FetchNextPage
    \/ Refetch
    \/ \E value \in {"", "x"} : HandleSearchChange(value)
    \/ \E page \in 1..MaxPage : HandlePageChange(page)
    \/ \E limit \in pageSize..(pageSize + 1) : HandleLimitChange(limit)
    \/ ProviderNavigate

SpecProvider == InitProvider /\ [][NextProvider]_vars

\* ------------------------------------------------------------------ view mode actions
ViewModes == {"list", "grid"}

\* The configurations of the view mode.
ViewOptions ==
    [filters : {[g \in Groups |-> <<>>]},
     defaultSort : {""},
     resetPageOnChange : BOOLEAN,
     defaultLimit : {pageSize},
     forcedViewMode : {""} \cup ViewModes,
     defaultViewMode : ViewModes,
     urlNamespace : {""}]

\* The values document.cookie may hold for the view mode when the page opens.
Cookies == {"", "table"} \cup ViewModes

InitViewMode ==
    /\ HookIdle
    /\ FetcherIdle
    /\ options \in ViewOptions
    /\ searchParams = NoParams
    /\ url = <<>>
    /\ consumer = NotCalled
    /\ cookie \in Cookies
    /\ viewMode = initialViewMode(options)

\* The effect of the first render of the store reads the cookie.
ViewModeEffect ==
    /\ ~mounted
    /\ mounted' = TRUE
    /\ viewMode' = cookieEffect(options, viewMode, cookie)
    /\ UNCHANGED <<props, paginationMode, state, nextState, queryKeyRef, isFetchingRef,
                   initialDataUsedRef, requests, nFetched, events, tableName, storeVars,
                   cookie, fetcherVars, scrollVars>>

HandleViewModeChange(mode) ==
    /\ mounted
    /\ events < MaxCalls
    /\ events' = events + 1
    /\ LET r == handleViewModeChange(options, viewMode, cookie, mode)
       IN viewMode' = r.viewMode /\ cookie' = r.cookie
    /\ UNCHANGED <<hookVars, tableName, storeVars, fetcherVars, scrollVars>>

NextViewMode ==
    \/ ViewModeEffect
    \/ \E mode \in ViewModes : HandleViewModeChange(mode)

SpecViewMode == InitViewMode /\ [][NextViewMode]_vars

\* ------------------------------------------------------------------ fetcher actions
\* The mappings a caller configures: one, or one followed by a second on
\* another column.  "g3" is a filter id with no key in ctx.filters.
FirstMappings ==
    [filterId : Groups \cup {"g3"}, column : {"c1"}, operator : FilterOperator,
     transform : BOOLEAN]

SecondMappings ==
    [filterId : Groups, column : {"c2"}, operator : {"eq", "in", "cs"}, transform : {TRUE}]

MappingLists ==
    {<<>>} \cup {<<m>> : m \in FirstMappings}
           \cup {<<m, n>> : m \in FirstMappings, n \in SecondMappings}

ActiveFilters == [Groups -> {<<>>, <<"a">>, <<"b", "a">>}]

Searches == {<<" ">>, <<"x">>, <<" ", "x", " ">>, <<"x", " ", "x">>, <<" ", " ">>, <<>>}

Sorts ==
    {<<>>, <<"c">>, <<"c", ":">>, <<"c", ":", "desc">>, <<"c", ":", "asc">>,
     <<"c", ":", "DESC">>, <<"c", ":", "desc", ":", "x">>}

DefaultSorts ==
    {NoDefaultSort} \cup {[given |-> TRUE, column |-> <<"d">>, ascending |-> a] : a \in BOOLEAN}

\* The calls of the fetcher looked at: every mapping list over every set of
\* active filters, and every search and sort value over every choice of
\* search columns and default sort.
InitFetcher ==
    /\ HookIdle
    /\ StoreIdle
    /\ query = <<>>
    /\ \/ /\ config \in [filterMappings : MappingLists, searchColumn : {"name"},
                          searchColumns : {<<>>}, defaultSort : {NoDefaultSort},
                          baseQuery : 0..MaxIdent]
          /\ ctx \in [filters : ActiveFilters, search : {<<"x">>}, sort : {<<>>},
                       skip : {0}, pageSize : {pageSize}]
       \/ /\ config \in [filterMappings : {<<[filterId |-> "g1", column |-> "c1",
                                                operator |-> "in", transform |-> FALSE]>>},
                          searchColumn : {"", "name"},
                          searchColumns : {<<>>, <<"title">>, <<"title", "body">>},
                          defaultSort : DefaultSorts,
                          baseQuery : 0..MaxIdent]
          /\ ctx \in [filters : {[g \in Groups |-> <<"a">>]}, search : Searches,
                       sort : Sorts, skip : {0, pageSize}, pageSize : {pageSize}]

\* fetchPage awaits supabaseFetcher(ctx).
SupabaseFetcher ==
    /\ query = <<>>
    /\ query' = supabaseFetcher(config, ctx)
    /\ UNCHANGED <<hookVars, events, tableName, storeVars, viewVars, config, ctx, scrollVars>>

NextFetcher == SupabaseFetcher

SpecFetcher == InitFetcher /\ [][NextFetcher]_vars

\* ------------------------------------------------------------------ claims
\* Steps of the model, as predicates on a pair of states.
RenderStep == Mount \/ PropsChange(props') \/ (\E other \in BOOLEAN : Rerender(other))

\* The request the step has started: the last of requests'.
Started == requests'[Len(requests')]

IssuesOneFetch == Len(requests') = Len(requests) + 1

Rows(d, q) == \A j \in 1..Len(d) : d[j].k = q

\* Request i was issued under a cache key that the effect has since replaced.
Stale(i) == requests[i].qs # queryKeyRef.qs

\* C1: a request that is still unresolved when the cache key changes never
\* writes its items and count into data/count when it resolves, and once no
\* request is left unresolved data holds only rows of the current key.
C1_StaleResultDiscarded ==
    /\ [][\A i \in 1..Len(requests) :
            (Stale(i) /\ ResolveOk(i))
                => (nextState'.data = nextState.data /\ nextState'.count = nextState.count)]_vars
    /\ [](requests = <<>> /\ queryKeyRef # NoKey /\ ~initialDataUsedRef
            => Rows(nextState.data, queryKeyRef.qs))

\* Only a callback prop differs between props a and b.
OnlyCallbackDiffers(a, b) ==
    /\ a.qs = b.qs /\ a.currentPage = b.currentPage /\ a.enabled = b.enabled
    /\ \/ a.baseQuery # b.baseQuery
       \/ a.customFetcher # b.customFetcher
       \/ a.onDataLoaded # b.onDataLoaded

\* C2: when only the identity of baseQuery, customFetcher or onDataLoaded
\* differs between two consecutive renders of the enabled hook, the cache key
\* changes and the render issues exactly one fetch that resets data.
C2_CallbackIdentityRefetches ==
    [][(PropsChange(props') /\ props'.enabled /\ OnlyCallbackDiffers(props', props))
            => /\ createQueryKey(props') # createQueryKey(props)
               /\ IssuesOneFetch
               /\ nextState'.data = <<>>]_vars

\* C3: under classic pagination, when currentPage changes to k from one render
\* to the next with the cache key unchanged, the render issues a fetch whose
\* skip is (k - 1) * pageSize.
C3_ClassicPageChangeFetches ==
    [][(/\ PropsChange(props')
        /\ paginationMode = "classic"
        /\ props'.enabled
        /\ props'.currentPage # props.currentPage)
            => /\ IssuesOneFetch
               /\ Started.skip = (props'.currentPage - 1) * pageSize]_vars

\* A render that changes search, filters, sort, tableName or columns after the
\* effect has recorded a key.
QueryStateChange ==
    /\ PropsChange(props')
    /\ props'.enabled
    /\ queryKeyRef # NoKey
    /\ props'.qs # props.qs

ResetAndLoading ==
    /\ nextState'.data = <<>>
    /\ nextState'.count = 0
    /\ nextState'.hasInitialFetch = FALSE
    /\ nextState'.isLoading = TRUE

\* C4 as stated: a change of search, filters, sort, tableName or columns after
\* the first activation resets data, count and hasInitialFetch, sets isLoading
\* and issues a fetch with skip = 0 in every pagination mode.
C4_KeyChangeFetchesSkipZero ==
    [][QueryStateChange
            => ResetAndLoading /\ IssuesOneFetch /\ Started.skip = 0 /\ Started.qs = props'.qs]_vars

\* C4 as amended: the same reset, and a fetch whose skip is 0 under load-more /
\* infinite-scroll and (currentPage - 1) * pageSize under classic pagination,
\* also while another fetch is in flight.
C4_KeyChangeResetsAndFetches ==
    [][QueryStateChange
            => /\ ResetAndLoading
               /\ IssuesOneFetch
               /\ Started.qs = props'.qs
               /\ Started.skip = IF paginationMode = "classic"
                                 THEN (props'.currentPage - 1) * pageSize ELSE 0]_vars

C4_Witness ==
    /\ paginationMode = "classic"
    /\ Len(requests) = 2
    /\ requests[1].qs # requests[2].qs
    /\ requests[2].skip = pageSize
    /\ nextState.data = <<>> /\ nextState.isLoading /\ ~nextState.hasInitialFetch
    /\ queryKeyRef.qs = requests[2].qs

\* C5: a render whose cache key is the key the effect has already recorded
\* issues no fetch and queues no state update, whatever made the effect run
\* again (a new fetchPage identity included).
C5_SameKeyNoFetch ==
    [][(RenderStep /\ queryKeyRef = createQueryKey(props'))
        => (requests' = requests /\ nextState' = nextState /\ isFetchingRef' = isFetchingRef)]_vars

C5_Witness ==
    /\ mounted
    /\ events = MaxEvents
    /\ queryKeyRef = createQueryKey(props)
    /\ requests = <<>>
    /\ nFetched = 1
    /\ state = nextState
    /\ props.baseQuery # 0
\* A render that shows the effect no cache key other than the one it recorded.
NoKeyChangeSeen == queryKeyRef \in {NoKey, createQueryKey(props')}

\* C6: with non-empty initialData the state starts as the seed (data, count,
\* isLoading = false, hasInitialFetch = true), and neither the first render nor
\* any later render issues a fetch or queues a state update as long as the
\* effect sees no cache key change.
C6_SeedIssuesNoFetch ==
    /\ [](initialDataUsedRef /\ ~mounted
            => /\ state.data = Range(props.qs, 0, SeedLen)
               /\ state.count = Count(props.qs)
               /\ ~state.isLoading
               /\ state.hasInitialFetch
               /\ requests = <<>>)
    /\ [][(initialDataUsedRef /\ RenderStep /\ NoKeyChangeSeen)
            => (requests' = requests /\ nextState' = nextState)]_vars

C6_Witness ==
    /\ initialDataUsedRef
    /\ mounted
    /\ props.enabled
    /\ events > 0
    /\ queryKeyRef = createQueryKey(props)
    /\ requests = <<>>
    /\ nFetched = 0
    /\ state = SeededState(props.qs)
    /\ nextState = state

\* C7: when a fetch fails (the fetcher rejects or returns a result with error
\* set), the state it leaves has error set, isFetching = false, isLoading =
\* false, and data and count as they were.
C7_FailureKeepsData ==
    [][\A i \in 1..Len(requests) :
        (ResolveError(i) \/ ResolveThrow(i))
            => /\ nextState'.error # "null"
               /\ ~nextState'.isFetching
               /\ ~nextState'.isLoading
               /\ nextState'.data = nextState.data
               /\ nextState'.count = nextState.count]_vars

C7_Witness ==
    /\ nextState.error # "null"
    /\ Len(nextState.data) = Count(props.qs)
    /\ nextState.count = Count(props.qs)
    /\ ~nextState.isFetching
    /\ ~nextState.isLoading
    /\ requests = <<>>
    /\ events > 0

\* The load-more scenario: one cache key, the initial fetch and calls of
\* fetchNextPage.
NextLoadMore ==
    \/ Mount
    \/ \E other \in BOOLEAN : Rerender(other)
    \/ \E i \in 1..MaxInFlight : ResolveOk(i)
    \/ \E i \in 1..MaxInFlight : ResolveError(i)
    \/ \E i \in 1..MaxInFlight : ResolveThrow(i)
    \/ FetchNextPage

SpecLoadMore == Init /\ [][NextLoadMore]_vars

\* C8: under load-more / infinite-scroll, after n successful fetches (the
\* initial one and those of fetchNextPage) of pages of P items from a backend
\* holding C items, data.length = min(n * P, C).
C8_AccumulationLaw ==
    (paginationMode = "infinite" /\ ~initialDataUsedRef)
        => Len(nextState.data) = Min(nFetched * pageSize, Count(props.qs))

\* The rows of page k of query state q, as the fetcher and the transform return them.
PageRows(q, k, t) ==
    IF t # 0 THEN Transformed(Range(q, (k - 1) * pageSize, pageSize))
    ELSE Range(q, (k - 1) * pageSize, pageSize)

\* C9: under classic pagination, a successful fetch of page k leaves in data
\* exactly the rows of the range [(k-1)*pageSize, k*pageSize - 1], and no more
\* than pageSize of them.
C9_ClassicReplaces ==
    [][\A i \in 1..Len(requests) :
        (paginationMode = "classic" /\ ResolveOk(i))
            => /\ nextState'.data = PageRows(requests[i].qs, requests[i].page, requests[i].onDataLoaded)
               /\ Len(nextState'.data) <= requests[i].pageSize]_vars

C9_Witness ==
    /\ paginationMode = "classic"
    /\ nFetched = 1
    /\ events >= 2
    /\ props.currentPage = 2
    /\ Len(nextState.data) = 1
    /\ nextState.data[1].i = pageSize + 1
    /\ nextState.hasInitialFetch

\* FetchState is settled: no setState is queued.
Settled == state = nextState

\* C10 as stated: fetchNextPage issues a fetch only if the mode is not classic,
\* no fetch is in flight and count > data.length; in every other state (data =
\* [] and count = 0 after a failed initial load included) it issues no fetch
\* and leaves FetchState unchanged.
C10_NextPageOnlyWhenMore ==
    [][(FetchNextPage /\ Settled
        /\ ~(paginationMode # "classic" /\ requests = <<>> /\ state.count > Len(state.data)))
            => (requests' = requests /\ nextState' = nextState)]_vars

\* The condition under which the code lets fetchNextPage fetch.
NextPageFetches ==
    /\ paginationMode # "classic"
    /\ props.enabled
    /\ ~isFetchingRef
    /\ (~state.hasInitialFetch) \/ state.count > Len(state.data)

\* C10 as amended: fetchNextPage issues a fetch only if the hook is enabled, the
\* mode is not classic, the in-flight flag is not set and either no fetch has
\* succeeded yet (hasInitialFetch = false) or count > data.length in the last
\* rendered state; otherwise it changes nothing; the fetch it issues has
\* skip = data.length of the last rendered state.
C10_NextPageGuards ==
    [][FetchNextPage
        => IF NextPageFetches
           THEN /\ IssuesOneFetch
                /\ Started.skip = Len(state.data)
                /\ ~Started.isReset
                /\ isFetchingRef'
           ELSE /\ requests' = requests
                /\ nextState' = nextState
                /\ isFetchingRef' = isFetchingRef]_vars

C10_Witness ==
    /\ paginationMode = "infinite"
    /\ Len(requests) = 1
    /\ requests[1].skip = pageSize
    /\ ~requests[1].isReset
    /\ Len(state.data) = pageSize
    /\ isFetchingRef

\* C11 as stated: a call of refetch(), in every pagination mode and whether or
\* not another fetch is in flight, starts a fetch with isReset whose context
\* has skip = 0.
C11_RefetchFetchesSkipZero ==
    [][Refetch => (IssuesOneFetch /\ Started.isReset /\ Started.skip = 0)]_vars

\* The condition under which the code lets refetch fetch.
RefetchFetches == props.enabled /\ ~isFetchingRef

\* C11 as amended: refetch() starts a fetch only when the hook is enabled and
\* the in-flight flag is not set; the fetch has isReset, its skip is 0 under
\* load-more / infinite-scroll and (currentPage - 1) * pageSize under classic
\* pagination, and its successful result replaces data wholesale.
C11_RefetchGuards ==
    /\ [][Refetch
            => IF RefetchFetches
               THEN /\ IssuesOneFetch
                    /\ Started.byRefetch
                    /\ Started.isReset
                    /\ Started.qs = props.qs
                    /\ Started.skip = IF paginationMode = "classic"
                                      THEN (props.currentPage - 1) * pageSize ELSE 0
               ELSE requests' = requests /\ isFetchingRef' = isFetchingRef]_vars
    /\ [][\A i \in 1..Len(requests) :
            (requests[i].byRefetch /\ ResolveOk(i))
                => nextState'.data = PageRows(requests[i].qs, requests[i].page,
                                              requests[i].onDataLoaded)]_vars

C11_Witness ==
    /\ paginationMode = "classic"
    /\ Len(requests) = 1
    /\ requests[1].byRefetch
    /\ requests[1].skip = pageSize
    /\ nextState.data # <<>>
    /\ isFetchingRef

\* The call of refetch() keeps data and count and sets isFetching.
RefetchCallFrame ==
    [][Refetch
        => /\ nextState'.data = nextState.data
           /\ nextState'.count = nextState.count
           /\ nextState'.isFetching]_vars

Resolves(i) == ResolveOk(i) \/ ResolveError(i) \/ ResolveThrow(i)

\* C12 as stated: from the call of refetch() until its fetch resolves, data and
\* count are unchanged and isFetching is true.
C12_RefetchKeepsDataUntilResolved ==
    /\ RefetchCallFrame
    /\ [][\A i \in 1..Len(requests) :
            (requests[i].byRefetch /\ ~Resolves(i))
                => /\ nextState'.data = nextState.data
                   /\ nextState'.count = nextState.count
                   /\ nextState'.isFetching]_vars

\* C12 as amended: the call of refetch() leaves data and count unchanged and
\* sets isFetching; while its fetch is unresolved, data and count change and
\* isFetching is cleared only by the resolution of a fetch (its own or another
\* unresolved one) or by a change of the cache key.
C12_RefetchFrame ==
    /\ RefetchCallFrame
    /\ [][((\E i \in 1..Len(requests) : requests[i].byRefetch)
            /\ Len(requests') >= Len(requests)
            /\ queryKeyRef' = queryKeyRef)
                => /\ nextState'.data = nextState.data
                   /\ nextState'.count = nextState.count
                   /\ (nextState.isFetching => nextState'.isFetching)]_vars

C12_Witness ==
    /\ Len(requests) = 1
    /\ requests[1].byRefetch
    /\ Settled
    /\ Len(state.data) = pageSize
    /\ state.count = Count(props.qs)
    /\ state.isFetching

\* C13: the in-flight flag is set in the step that invokes the fetcher, every
\* completion path (success, error result, thrown exception) clears it in the
\* step that queues its state update, before a render applies that update, and
\* while the flag is set fetchNextPage, fetchPageNumber and refetch start no fetch.
C13_InFlightFlag ==
    /\ [][IssuesOneFetch => isFetchingRef']_vars
    /\ [][\A i \in 1..Len(requests) :
            Resolves(i) => (~isFetchingRef' /\ state' = state)]_vars
    /\ [][(isFetchingRef
            /\ (FetchNextPage \/ (\E page \in 1..MaxPage : FetchPageNumber(page)) \/ Refetch))
                => requests' = requests]_vars

C13_Witness ==
    /\ isFetchingRef
    /\ Len(requests) = 1
    /\ ~requests[1].isReset
    /\ nFetched >= 1
    /\ ~Settled

\* The handlers of the URL store that do not set the page themselves.
QueryHandlerCall ==
    \/ \E value \in {"", "x"} : HandleSearchChange(value)
    \/ \E newFilters \in FilterInputs : HandleFiltersChange(newFilters)
    \/ \E groupId \in Groups, value \in Values : HandleFilterChange(groupId, value)
    \/ \E value \in {"", "s1"} : HandleSortChange(value)
    \/ \E limit \in 1..(pageSize + 1) : HandleLimitChange(limit)

\* URL a holds the search, filter, sort and limit parameters of URL b.
SameButPage(a, b) == [a EXCEPT !.page = Absent] = [b EXCEPT !.page = Absent]

\* C14: with resetPageOnChange, every call of handleSearchChange,
\* handleFiltersChange, handleSortChange and handleLimitChange leaves a URL
\* without a page parameter (currentPage = 1); handlePageChange(p) writes the
\* page parameter (none for p = 1) and leaves the search, filter, sort and
\* limit parameters of the URL as they are.
C14_PageResetOnChange ==
    /\ [][(options.resetPageOnChange /\ QueryHandlerCall)
            => (url'[1].page = Absent /\ currentPage(url'[1]) = 1)]_vars
    /\ [][\A page \in 1..MaxPage :
            HandlePageChange(page)
                => /\ SameButPage(url'[1], searchParams)
                   /\ url'[1].page = (IF page > 1 THEN Num(page) ELSE Absent)]_vars

C14_Witness ==
    /\ options.resetPageOnChange
    /\ events = MaxCalls
    /\ url # <<>>
    /\ searchParams.page = Num(MaxPage)
    /\ searchParams.q = ""
    /\ url[1].q = "x"
    /\ url[1].page = Absent

\* C15: round trip.  Each field of a QueryState written through its handler
\* and parsed from the resulting URL is the field that was written, for every
\* configured defaultValue and defaultSort.
C15_RoundTrip ==
    [][/\ \A value \in {"", "x"} :
            HandleSearchChange(value) => currentSearch(url'[1]) = value
       /\ \A newFilters \in FilterInputs :
            HandleFiltersChange(newFilters) => currentFilters(options, url'[1]) = newFilters
       /\ \A value \in {"", "s1"} :
            HandleSortChange(value) => currentSort(options, url'[1]) = value
       /\ \A page \in 1..MaxPage :
            HandlePageChange(page) => currentPage(url'[1]) = page
       /\ \A limit \in 1..(pageSize + 1) :
            HandleLimitChange(limit) => currentLimit(options, url'[1]) = limit]_vars

\* C16: for every raw value of the page and limit parameters the parsed
\* currentPage and currentLimit are >= 1, and a missing or non-numeric value
\* gives page 1 and the configured page size.
C16_PageAndLimitClamped ==
    /\ currentPage(searchParams) >= 1
    /\ currentLimit(options, searchParams) >= 1
    /\ searchParams.page.kind \in {"absent", "text"} => currentPage(searchParams) = 1
    /\ searchParams.limit.kind \in {"absent", "text"}
        => currentLimit(options, searchParams) = options.defaultLimit

\* C17: in every reachable state a filter group with mode = single has at most
\* one active value in currentFilters.
C17_SingleModeAtMostOne ==
    \A g \in Groups :
        FilterMode(g) = "single" => Len(currentFilters(options, searchParams)[g]) <= 1

\* C18: selecting value v in a single group leaves that group's active set at
\* exactly <<v>>, selecting it in a multiple group adds v when it is absent and
\* removes it when it is present, and every other group's active set stays as
\* it was.
C18_FilterSelection ==
    [][\A g \in Groups, v \in Values :
        HandleFilterChange(g, v)
            => LET before == currentFilters(options, searchParams)
                   after == currentFilters(options, url'[1])
               IN /\ \A h \in Groups \ {g} : after[h] = before[h]
                  /\ after[g] = IF FilterMode(g) = "single" THEN <<v>>
                                ELSE IF Includes(before[g], v) THEN Without(before[g], v)
                                ELSE Append(before[g], v)]_vars

\* C19: when neither customFetcher nor tableName is supplied, no render of the
\* hook completes (the missing tableName is thrown to it), and the missing
\* tableName never becomes the error of FetchState.
C19_MissingSourceRaised ==
    /\ [][~(RenderStep /\ ~tableName /\ props'.customFetcher = 0 /\ props'.enabled)]_vars
    /\ [][\A i \in 1..Len(requests) :
            (~HasSource(requests[i]) /\ ResolveThrow(i)) => nextState'.error = "null"]_vars

\* C20: useDataView() throws an error with a message when no DataViewProvider
\* encloses the caller, and returns the provider's context value otherwise.
C20_FacadeGuard ==
    [][\A inside \in BOOLEAN :
        UseDataView(inside)
            => IF inside
               THEN ~consumer'.threw /\ consumer'.value = <<contextValue>>
               ELSE consumer'.threw /\ consumer'.message # ""]_vars

C20_Witness ==
    /\ consumer.threw
    /\ consumer.message = "useDataView must be used within a DataViewProvider"
    /\ consumer.value = <<>>

\* ------------------------------------------------------------------ C21..C30
\* C21: a fetcher that rejects, a fetcher that returns an error result and a
\* transform that rejects or throws all end the same way: the call settles
\* (nothing propagates, the hook goes on), error is set, isLoading and
\* isFetching are false, the in-flight flag is cleared, and nothing else of
\* the state changes.
C21_FailureOutcome ==
    [][\A i \in 1..Len(requests) :
        (ResolveError(i) \/ ResolveThrow(i))
            => /\ isFetchingRef' = FALSE
               /\ nextState'.error \in {"result", "thrown"}
               /\ nextState' = [nextState EXCEPT !.error = nextState'.error,
                                                 !.isFetching = FALSE,
                                                 !.isLoading = FALSE]
               /\ Len(requests') = Len(requests) - 1
               /\ mounted' = mounted
               /\ state' = state]_vars

\* A transform-carrying fetch has failed by throwing.
C21_Witness ==
    /\ mounted
    /\ props.onDataLoaded # 0
    /\ nextState.error = "thrown"
    /\ ~nextState.isFetching
    /\ ~nextState.isLoading
    /\ ~isFetchingRef
    /\ requests = <<>>

\* C30: isLoading = true implies that data is empty, in the state the hook
\* exposes.
C30_LoadingMeansNoData ==
    state.isLoading => state.data = <<>>

\* The calls of a built query by what they are: the filter predicates are the
\* filtering calls on a mapped column, the search predicates the other
\* filtering calls, the orderings the order calls.
MappedColumns == {"c1", "c2"}

IsFilterCall(p) == "args" \in DOMAIN p /\ p.column \in MappedColumns

IsSearchCall(p) == "args" \in DOMAIN p /\ p.column \notin MappedColumns

IsOrderCall(p) == p.op = "order"

FilterCalls == SelectSeq(query, IsFilterCall)

SearchCalls == SelectSeq(query, IsSearchCall)

OrderCalls == SelectSeq(query, IsOrderCall)

IsActive(m) == valuesOf(ctx.filters, m.filterId) # <<>>

\* The mappings whose filterId has a non-empty active value set, in order.
ActiveMappings == SelectSeq(config.filterMappings, IsActive)

\* The operators the statement of C24 names (FilterOperator without the
\* alias cs, which C25 is about).
NamedOperators ==
    {"eq", "neq", "gt", "gte", "lt", "lte", "like", "ilike", "in", "contains", "is"}

NamedOperatorsOnly ==
    \A j \in 1..Len(config.filterMappings) :
        config.filterMappings[j].operator \in NamedOperators

\* C24: over mappings with the operators eq, neq, gt, gte, lt, lte, like,
\* ilike, in, contains and is, the compiler applies exactly one predicate for
\* each mapping whose filterId has a non-empty active value set, in the order
\* of the mappings, and none for a mapping with an empty or absent set or for
\* an active filter without a mapping; eq/neq/gt/gte/lt/lte/like/ilike use
\* the raw first value, in/contains/is receive the transformed values.
C24_FilterPredicates ==
    (query # <<>> /\ NamedOperatorsOnly) =>
        /\ Len(FilterCalls) = Len(ActiveMappings)
        /\ \A j \in 1..Len(FilterCalls) :
            LET m == ActiveMappings[j]
                values == valuesOf(ctx.filters, m.filterId)
                call == FilterCalls[j]
            IN /\ call.column = m.column
               /\ m.operator \in {"eq", "neq", "gt", "gte", "lt", "lte"}
                    => call = Predicate(m.operator, m.column, <<values[1]>>)
               /\ m.operator \in {"like", "ilike"}
                    => call = Predicate(m.operator, m.column, <<"%", values[1], "%">>)
               /\ m.operator \in {"in", "contains", "is"}
                    => call = Predicate(m.operator, m.column,
                                        IF m.transform THEN transform(values) ELSE values)

\* Two mappings with a transform have been compiled over two active values,
\* while the other active filter has no mapping.
C24_Witness ==
    /\ query # <<>>
    /\ Len(config.filterMappings) = 2
    /\ \A j \in 1..2 : config.filterMappings[j].filterId = "g1"
                        /\ config.filterMappings[j].transform
    /\ ctx.filters["g1"] = <<"b", "a">>
    /\ ctx.filters["g2"] = <<"a">>
    /\ FilterCalls = <<Predicate("eq", "c1", <<"b">>), Predicate("in", "c2", <<"B", "A">>)>>

\* C25: a mapping with operator cs and a non-empty active value set applies a
\* contains predicate on its column, as operator contains does.
C25_CsIsContains ==
    query # <<>> =>
        \A j \in 1..Len(config.filterMappings) :
            LET m == config.filterMappings[j]
                values == valuesOf(ctx.filters, m.filterId)
            IN (m.operator = "cs" /\ values # <<>>)
                => \E k \in 1..Len(query) :
                    query[k] = Predicate("contains", m.column,
                                         IF m.transform THEN transform(values) ELSE values)

\* The text of a search string between its first and last non-blank token.
Trimmed(text) ==
    LET solid == {i \in 1..Len(text) : text[i] # " "}
    IN IF solid = {} THEN <<>>
       ELSE SubSeq(text, CHOOSE i \in solid : \A j \in solid : i <= j,
                         CHOOSE i \in solid : \A j \in solid : i >= j)

\* The columns a search is matched on.
TargetColumns ==
    IF config.searchColumns # <<>> THEN config.searchColumns
    ELSE IF config.searchColumn # "" THEN <<config.searchColumn>>
    ELSE <<>>

\* A case-insensitive partial match of text on column, as a condition of or().
PartialMatch(column, text) == <<column, ".ilike.", "%">> \o text \o <<"%">>

\* args is the comma-separated list of one partial match per column.
IsOrOver(args, columns, text) ==
    LET w == Len(text) + 4
        n == Len(columns)
    IN /\ Len(args) = n * w + (n - 1)
       /\ \A i \in 1..n :
            /\ SubSeq(args, (i - 1) * (w + 1) + 1, (i - 1) * (w + 1) + w)
                 = PartialMatch(columns[i], text)
            /\ i < n => args[i * (w + 1)] = ","

\* C26: a search that is empty after trimming adds no predicate; with one
\* target column one case-insensitive partial match on the trimmed text is
\* added; with several, one OR over a partial match on each column; with no
\* target column nothing is added.
C26_SearchCompilation ==
    query # <<>> =>
        LET text == Trimmed(ctx.search)
        IN IF text = <<>> \/ TargetColumns = <<>>
           THEN SearchCalls = <<>>
           ELSE IF Len(TargetColumns) = 1
           THEN SearchCalls = <<Predicate("ilike", TargetColumns[1], <<"%">> \o text \o <<"%">>)>>
           ELSE /\ Len(SearchCalls) = 1
                /\ SearchCalls[1].op = "or"
                /\ IsOrOver(SearchCalls[1].args, TargetColumns, text)

\* A search typed with blanks around it has been compiled over two columns.
C26_Witness ==
    /\ query # <<>>
    /\ ctx.search = <<" ", "x", " ">>
    /\ config.searchColumns = <<"title", "body">>
    /\ Len(SearchCalls) = 1
    /\ SearchCalls[1].op = "or"

\* The positions of the separators of a sort value.
Colons(sort) == {i \in 1..Len(sort) : sort[i] = ":"}

\* The part of 'column:direction' before the first separator.
SortColumn(sort) ==
    IF Colons(sort) = {} THEN sort
    ELSE SubSeq(sort, 1, (CHOOSE i \in Colons(sort) : \A j \in Colons(sort) : i <= j) - 1)

\* The direction of 'column:direction' is exactly 'desc'.
SortDescending(sort) ==
    \E i \in Colons(sort) :
        /\ \A j \in Colons(sort) : i <= j
        /\ i < Len(sort)
        /\ sort[i + 1] = "desc"
        /\ (i + 1 = Len(sort) \/ sort[i + 2] = ":")

\* C27: an explicit sort wins over the default sort and orders descending
\* only when its direction is exactly 'desc'; with no explicit sort the
\* default column and direction are used; with neither, no ordering is added.
C27_SortCompilation ==
    query # <<>> =>
        IF ctx.sort # <<>>
        THEN OrderCalls = <<Order(SortColumn(ctx.sort), ~SortDescending(ctx.sort))>>
        ELSE IF config.defaultSort.given
        THEN OrderCalls = <<Order(config.defaultSort.column, config.defaultSort.ascending)>>
        ELSE OrderCalls = <<>>

\* An explicit sort with a direction that is not 'desc' has been compiled
\* ascending over a descending default.
C27_Witness ==
    /\ query # <<>>
    /\ ctx.sort = <<"c", ":", "DESC">>
    /\ config.defaultSort.given
    /\ ~config.defaultSort.ascending
    /\ OrderCalls = <<Order(<<"c">>, TRUE)>>

\* C28: the order of the calls on the request is select, filters, search,
\* sort, baseQuery, range.
C28_BaseQueryLast ==
    (query # <<>> /\ config.baseQuery # 0) =>
        query = <<[op |-> "select"]>> \o FilterCalls \o SearchCalls \o OrderCalls
                \o <<[op |-> "baseQuery", id |-> config.baseQuery]>>
                \o <<[op |-> "range", from |-> ctx.skip, to |-> ctx.skip + ctx.pageSize - 1]>>

\* C23: with a forced view mode, viewMode equals the forced mode in every
\* state and handleViewModeChange changes neither viewMode nor the cookie;
\* with none, handleViewModeChange(m) sets viewMode to m and writes m to the
\* cookie.
C23_ForcedViewMode ==
    /\ [](options.forcedViewMode # "" => viewMode = options.forcedViewMode)
    /\ [][\A m \in ViewModes :
            HandleViewModeChange(m)
                => IF options.forcedViewMode # ""
                   THEN viewMode' = viewMode /\ cookie' = cookie
                   ELSE viewMode' = m /\ cookie' = m]_vars

\* handleViewModeChange has been called under a forced mode that differs from
\* the mode the cookie holds.
C23_Witness ==
    /\ options.forcedViewMode = "list"
    /\ options.defaultViewMode = "grid"
    /\ cookie = "grid"
    /\ viewMode = "list"
    /\ mounted
    /\ events > 0

\* A handler of the store has handed a new target to router.replace.
UrlUpdate == url' # <<>> /\ url' # url

\* C29: every URL update made by a store with a non-empty namespace N leaves
\* every parameter without the N_ prefix as it was in the URL the update was
\* built from, a page reset included, and changes only parameters named
\* N_<key> for a key of the store.
C29_NamespaceFrame ==
    [][(UrlUpdate /\ options.urlNamespace # "")
        => url'[1].other = searchParams.other]_vars

\* A namespaced store has reset its own page on a search change, next to an
\* un-namespaced page parameter.
C29_Witness ==
    /\ options.urlNamespace = "N"
    /\ url # <<>>
    /\ searchParams.page = Num(2)
    /\ url[1].page = Absent
    /\ url[1].q = "x"
    /\ searchParams.other.page = Num(2)
    /\ url[1].other = searchParams.other

\* C22: in every state the exposed hasMore equals page < ceil(count / limit)
\* under classic pagination and count > data.length otherwise, page and
\* limit being the current page and limit of the URL store.
C22_HasMore ==
    mounted =>
        hasMore(paginationMode, props, state)
            = IF paginationMode = "classic"
              THEN currentPage(searchParams)
                     < ceil(state.count, currentLimit(options, searchParams))
              ELSE state.count > Len(state.data)

\* ------------------------------------------------------------------ C31..C39
\* C31: every DataFetchContext handed to a fetcher or to onDataLoaded has
\* skip = (page - 1) * pageSize, under classic and under load-more /
\* infinite-scroll pagination.
C31_SkipFromPage ==
    \A i \in 1..Len(requests) :
        requests[i].skip = (requests[i].page - 1) * requests[i].pageSize

\* C32: Clear All, clicked while the q parameter holds a search and at least
\* one filter parameter is set, leaves a URL with no q parameter and no filter
\* parameter: both handler calls it makes take effect.
C32_ClearAllClearsBoth ==
    [][(/\ HandleClearAll
        /\ searchParams.q # ""
        /\ \E g \in Groups : searchParams.f[g] # <<>>)
       => (/\ url'[1].q = ""
           /\ \A g \in Groups : url'[1].f[g] = <<>>)]_vars

\* C33: whenever a fetch completes successfully, the state it leaves has
\* error = null, isSuccess = true, isLoading = false, isFetching = false,
\* hasInitialFetch = true and the count that fetch returned; so a later fetch
\* recovers from the Error state.
C33_SuccessRecovers ==
    [][\A i \in 1..Len(requests) :
        ResolveOk(i)
            => /\ nextState'.error = "null"
               /\ nextState'.isSuccess
               /\ ~nextState'.isLoading
               /\ ~nextState'.isFetching
               /\ nextState'.hasInitialFetch
               /\ nextState'.count = Count(requests[i].qs)]_vars

\* The rendered state is the Error state and a fetch has since succeeded.
C33_Witness ==
    /\ state.error # "null"
    /\ nextState.error = "null"
    /\ nextState.isSuccess
    /\ ~nextState.isLoading
    /\ ~nextState.isFetching
    /\ nextState.hasInitialFetch
    /\ nextState.data # <<>>

\* C34: at most one fetch request is unresolved at any time.
C34_OneRequestInFlight == Len(requests) <= 1

\* C35: in every state with no pending state update, isFetching is true if
\* and only if a fetch request is unresolved.
C35_IsFetchingTracksRequest ==
    (mounted /\ state = nextState) => (state.isFetching <=> requests # <<>>)

\* d is a duplicate-free prefix of the list the backend holds for q.
IsPrefix(d, q) ==
    /\ Len(d) <= Count(q)
    /\ \A j \in 1..Len(d) : d[j] = Row(q, j, 0)

\* C36: under load-more / infinite-scroll with no transform, data is in every
\* reachable state a duplicate-free prefix of the list the backend serves
\* range slices of for the current key.
C36_DataIsPrefix ==
    (paginationMode = "infinite" /\ props.onDataLoaded = 0)
        => IsPrefix(nextState.data, props.qs)

\* C38: after the clear-filters action, handleFiltersChange({}), every
\* configured filter group has an empty active value set in the currentFilters
\* parsed from the URL it wrote, groups that declare a defaultValue included.
C38_ClearFiltersEmptiesAll ==
    [][HandleFiltersChange(clearFilters)
        => \A g \in Groups : currentFilters(options, url'[1])[g] = <<>>]_vars

\* C39: in every fetch issued through the provider, FetchContext.pageSize is
\* the currentLimit of the URL of the render that issues it.
C39_PageSizeIsLimit ==
    [][IssuesOneFetch
        => Started.pageSize = currentLimit(options, searchParams')]_vars

\* C37: under infinite-scroll with the sentinel permanently visible and a
\* backend that answers every request with its range slice, fetching
\* terminates: from some point on data holds all Count items, hasMore is
\* false and no request is unresolved.
C37_ScrollTerminates ==
    <>[](props.enabled
            => /\ Len(nextState.data) = Count(props.qs)
               /\ ~hasMore(paginationMode, props, nextState)
               /\ requests = <<>>)

====
